---- MODULE Spec2Model ----
(***************************************************************************)
(* A model of the indexed priority queue of int.go: the Item record, the   *)
(* IntQueue slice with its heap.Interface methods (Len, Less, Swap, Push,  *)
(* Pop), the helpers update and changePriority, and the driver main.  The  *)
(* container/heap functions the queue is used through (heap.Push,          *)
(* heap.Pop, heap.Remove with their loops up and down) are modelled as the *)
(* Go standard library defines them, calling the IntQueue methods.         *)
(*                                                                         *)
(* Items are pointers in the source; here an Item is an identity (a        *)
(* number) and item[x] holds the fields of the Item x.  Go slices are      *)
(* indexed from 0 and TLA+ sequences from 1: position i of the slice is    *)
(* pq[i + 1].  A run-time panic of Go (index or slice bounds out of range) *)
(* is the outcome ok = FALSE of an operation, with the state as it was     *)
(* when the panic happened.                                                *)
(***************************************************************************)
EXTENDS Integers, Sequences, FiniteSets, TLC

VARIABLES
    pq,     \* the IntQueue: the sequence of the Items (identities) in the slice
    cap,    \* the capacity of the slice's backing array
    item,   \* the fields of every Item: [value, priority, index]
    last,   \* the last call and its outcome: [op, arg, ret, status]
    run     \* the driver main: its input, its loop counters and what it printed

vars == <<pq, cap, item, last, run>>

(***************************************************************************)
(* Bounds of the model.                                                    *)
(***************************************************************************)
NItems == 3         \* Items that exist in the free-running specification
Cap == 2            \* NewIntQueue(Cap) in the free-running specification
MaxPriority == 1    \* priorities given to Items and calls are 0..MaxPriority
MaxLen == 6         \* longest queue of the one-call specification
MaxN == 3           \* longest input of the driver besides the source's own

Priorities == 0..MaxPriority

(***************************************************************************)
(* The value of an Item is a payload the queue never reads.  Items start   *)
(* with the values 1, 2, ... and update is given the value 0, which no     *)
(* Item starts with.                                                       *)
(***************************************************************************)
Values == {0}

(***************************************************************************)
(* Item: a freshly constructed &Item{value: v, priority: p} has the zero   *)
(* value 0 in its index field.                                             *)
(***************************************************************************)
Item(v, p) == [value |-> v, priority |-> p, index |-> 0]

(***************************************************************************)
(* NewIntQueue(n): an empty slice of capacity n.                           *)
(***************************************************************************)
NewIntQueue(n) == [pq |-> <<>>, cap |-> n]

(***************************************************************************)
(* A heap value h is the slice with the Items it points to and the outcome *)
(* of the call in progress: [pq, cap, item, ok, ret].                      *)
(***************************************************************************)
GoDiv(a, b) == IF a >= 0 THEN a \div b ELSE -((-a) \div b)

InRange(h, i) == i >= 0 /\ i < Len(h.pq)

Panic(h) == [h EXCEPT !.ok = FALSE]

QLen(h) == Len(h.pq)

\* Less with the comparison turned around: a min-heap.
LessMin(h, i, j) == h.item[h.pq[i + 1]].priority < h.item[h.pq[j + 1]].priority

\* Less that also holds between equal priorities.
LessOrEqual(h, i, j) == h.item[h.pq[i + 1]].priority >= h.item[h.pq[j + 1]].priority

Less(h, i, j) == h.item[h.pq[i + 1]].priority > h.item[h.pq[j + 1]].priority

\* Swap that exchanges the slots and leaves the index fields as they were.
SwapNoIndex(h, i, j) ==
    IF ~InRange(h, i) \/ ~InRange(h, j)
    THEN Panic(h)
    ELSE [h EXCEPT !.pq = [h.pq EXCEPT ![i + 1] = h.pq[j + 1],
                                       ![j + 1] = h.pq[i + 1]]]

\* Swap that writes the index fields and leaves the slots as they were.
SwapIndexOnly(h, i, j) ==
    IF ~InRange(h, i) \/ ~InRange(h, j)
    THEN Panic(h)
    ELSE [h EXCEPT !.item = [[h.item EXCEPT ![h.pq[i + 1]].index = i]
                                EXCEPT ![h.pq[j + 1]].index = j]]

\* Swap that copies slot j over slot i and leaves slot j as it was.
SwapCopy(h, i, j) ==
    IF ~InRange(h, i) \/ ~InRange(h, j)
    THEN Panic(h)
    ELSE LET a == [h.pq EXCEPT ![i + 1] = h.pq[j + 1]]
             it1 == [h.item EXCEPT ![a[i + 1]].index = i]
             it2 == [it1 EXCEPT ![a[j + 1]].index = j]
         IN  [h EXCEPT !.pq = a, !.item = it2]

Swap(h, i, j) ==
    IF ~InRange(h, i) \/ ~InRange(h, j)
    THEN Panic(h)
    ELSE LET a == [h.pq EXCEPT ![i + 1] = h.pq[j + 1], ![j + 1] = h.pq[i + 1]]
             it1 == [h.item EXCEPT ![a[i + 1]].index = i]
             it2 == [it1 EXCEPT ![a[j + 1]].index = j]
         IN  [h EXCEPT !.pq = a, !.item = it2]

\* Push that writes the index before it extends the slice.
PushMarkFirst(h, x) ==
    LET n == Len(h.pq)
        h1 == [h EXCEPT !.item[x].index = n]
    IN  IF n + 1 > h.cap
        THEN Panic(h1)
        ELSE [h1 EXCEPT !.pq = Append(h.pq, x)]

Push(h, x) ==
    LET n == Len(h.pq)
    IN  IF n + 1 > h.cap
        THEN Panic(h)
        ELSE [h EXCEPT !.item[x].index = n, !.pq = Append(h.pq, x)]

\* Pop that takes the Item of the first slot instead of the last.
PopFirst(h) ==
    LET n == Len(h.pq)
    IN  IF ~InRange(h, n - 1)
        THEN Panic(h)
        ELSE [h EXCEPT !.item[h.pq[1]].index = -1,
                       !.pq = SubSeq(h.pq, 1, n - 1),
                       !.ret = h.pq[1]]

\* Pop that returns the last Item and does not shorten the slice.
PopKeepLen(h) ==
    LET n == Len(h.pq)
    IN  IF ~InRange(h, n - 1)
        THEN Panic(h)
        ELSE [h EXCEPT !.item[h.pq[n]].index = -1, !.ret = h.pq[n]]

\* Pop that does not mark the Item it returns.
PopNoMark(h) ==
    LET n == Len(h.pq)
    IN  IF ~InRange(h, n - 1)
        THEN Panic(h)
        ELSE [h EXCEPT !.pq = SubSeq(h.pq, 1, n - 1), !.ret = h.pq[n]]

Pop(h) ==
    LET n == Len(h.pq)
    IN  IF ~InRange(h, n - 1)
        THEN Panic(h)
        ELSE [h EXCEPT !.item[h.pq[n]].index = -1,
                       !.pq = SubSeq(h.pq, 1, n - 1),
                       !.ret = h.pq[n]]

(***************************************************************************)
(* container/heap: up, down, Push, Pop, Remove.                            *)
(***************************************************************************)
RECURSIVE up(_, _)
up(h, j) ==
    LET i == GoDiv(j - 1, 2)
    IN  IF i = j \/ ~Less(h, j, i)
        THEN h
        ELSE up(Swap(h, i, j), i)

RECURSIVE downLoop(_, _, _)
downLoop(h, i, n) ==
    LET j1 == 2 * i + 1
    IN  IF j1 >= n \/ j1 < 0
        THEN [h |-> h, i |-> i]
        ELSE LET j2 == j1 + 1
                 j == IF j2 < n /\ Less(h, j2, j1) THEN j2 ELSE j1
             IN  IF ~Less(h, j, i)
                 THEN [h |-> h, i |-> i]
                 ELSE downLoop(Swap(h, i, j), j, n)

down(h, i0, n) ==
    LET r == downLoop(h, i0, n)
    IN  [h |-> r.h, moved |-> r.i > i0]

heapPush(h, x) ==
    LET h1 == Push(h, x)
    IN  IF ~h1.ok THEN h1 ELSE up(h1, QLen(h1) - 1)

heapPop(h) ==
    LET n == QLen(h) - 1
        h1 == Swap(h, 0, n)
    IN  IF ~h1.ok THEN h1 ELSE Pop(down(h1, 0, n).h)

heapRemove(h, i) ==
    LET n == QLen(h) - 1
        h1 == IF n # i
              THEN LET s == Swap(h, i, n)
                   IN  IF ~s.ok
                       THEN s
                       ELSE LET d == down(s, i, n)
                            IN  IF ~d.moved THEN up(d.h, i) ELSE d.h
              ELSE h
    IN  IF ~h1.ok THEN h1 ELSE Pop(h1)

(***************************************************************************)
(* update and changePriority of the IntQueue.                              *)
(***************************************************************************)
\* update that returns without a word when the queue is empty.
updateGuarded(h, value, priority) ==
    IF QLen(h) = 0
    THEN h
    ELSE LET h1 == heapPop(h)
             x == h1.ret
         IN  heapPush([h1 EXCEPT !.item[x].value = value,
                                 !.item[x].priority = priority,
                                 !.ret = 0], x)

\* update that sets the priority and forgets the value.
updateNoValue(h, value, priority) ==
    LET h1 == heapPop(h)
    IN  IF ~h1.ok
        THEN h1
        ELSE heapPush([h1 EXCEPT !.item[h1.ret].priority = priority,
                                 !.ret = 0], h1.ret)

\* update that writes the value into priority and the priority into value.
updateSwapFields(h, value, priority) ==
    LET h1 == heapPop(h)
    IN  IF ~h1.ok
        THEN h1
        ELSE heapPush([h1 EXCEPT !.item[h1.ret].value = priority,
                                 !.item[h1.ret].priority = value,
                                 !.ret = 0], h1.ret)

update(h, value, priority) ==
    LET h1 == heapPop(h)
    IN  IF ~h1.ok
        THEN h1
        ELSE LET x == h1.ret
                 h2 == [h1 EXCEPT !.item[x].value = value,
                                  !.item[x].priority = priority,
                                  !.ret = 0]
             IN  heapPush(h2, x)

\* changePriority that writes the priority where the Item stands.
changePriorityInPlace(h, x, priority) ==
    [h EXCEPT !.item[x].priority = priority]

\* changePriority that takes the Item out and does not push it back.
changePriorityNoPush(h, x, priority) ==
    LET h1 == heapRemove(h, h.item[x].index)
    IN  IF ~h1.ok
        THEN h1
        ELSE [h1 EXCEPT !.item[x].priority = priority, !.ret = 0]

changePriority(h, x, priority) ==
    LET h1 == heapRemove(h, h.item[x].index)
    IN  IF ~h1.ok
        THEN h1
        ELSE heapPush([h1 EXCEPT !.item[x].priority = priority, !.ret = 0], x)

(***************************************************************************)
(* The calls a user of the queue makes.                                    *)
(***************************************************************************)
Cur == [pq |-> pq, cap |-> cap, item |-> item, ok |-> TRUE, ret |-> 0]

InQueue(x) == \E k \in 1..Len(pq) : pq[k] = x

Outcome(op, arg, h) ==
    /\ pq' = h.pq
    /\ cap' = h.cap
    /\ item' = h.item
    /\ last' = [op |-> op, arg |-> arg,
                ret |-> IF h.ok THEN h.ret ELSE 0,
                status |-> IF h.ok THEN "ok" ELSE "panic"]
    /\ UNCHANGED run

CallPush ==
    \E x \in DOMAIN item :
        /\ ~InQueue(x)
        /\ Outcome("push", x, heapPush(Cur, x))

CallPop == Outcome("pop", 0, heapPop(Cur))

CallRemove ==
    \E x \in DOMAIN item : Outcome("remove", x, heapRemove(Cur, item[x].index))

CallUpdate ==
    \E v \in Values, p \in Priorities : Outcome("update", 0, update(Cur, v, p))

CallChangePriority ==
    \E x \in DOMAIN item, p \in Priorities :
        Outcome("changePriority", x, changePriority(Cur, x, p))

NoCall == [op |-> "none", arg |-> 0, ret |-> 0, status |-> "ok"]

NoRun == [input |-> <<>>, i |-> 0, j |-> 0, out |-> <<>>]

Init ==
    /\ pq = NewIntQueue(Cap).pq
    /\ cap = NewIntQueue(Cap).cap
    /\ \E pr \in [1..NItems -> Priorities] :
           item = [x \in 1..NItems |-> Item(x, pr[x])]
    /\ last = NoCall
    /\ run = NoRun

Next ==
    \/ CallPush
    \/ CallPop
    \/ CallRemove
    \/ CallUpdate
    \/ CallChangePriority

Spec == Init /\ [][Next]_vars

(***************************************************************************)
(* One call on any queue: the initial states are the queues of up to       *)
(* MaxLen Items in heap order, each Item at the position its index names,  *)
(* as a sequence of pushes in slice order leaves them, together with one   *)
(* Item that is not in the queue: a fresh one (index 0) or one taken out   *)
(* before (index -1).  The queue was made by NewIntQueue(MaxLen).  One     *)
(* call is made on it.                                                     *)
(***************************************************************************)
HeapPriorities == 0..(MaxPriority + 1)

HeapOrdered(q, it) ==
    \A i \in 1..(Len(q) - 1) :
        it[q[GoDiv(i - 1, 2) + 1]].priority >= it[q[i + 1]].priority

StepInit ==
    /\ \E n \in 0..MaxLen, pr \in [1..(MaxLen + 1) -> HeapPriorities], d \in {0, -1} :
           /\ pq = [k \in 1..n |-> k]
           /\ item = [x \in 1..(n + 1) |->
                         [value |-> x, priority |-> pr[x],
                          index |-> IF x <= n THEN x - 1 ELSE d]]
           /\ \A x \in (n + 2)..(MaxLen + 1) : pr[x] = 0
           /\ HeapOrdered(pq, item)
    /\ cap = NewIntQueue(MaxLen).cap
    /\ last = NoCall
    /\ run = NoRun

NoCallYet == last.op = "none"

OnePush == NoCallYet /\ CallPush

OnePop == NoCallYet /\ CallPop

OneRemove == NoCallYet /\ CallRemove

OneUpdate == NoCallYet /\ CallUpdate

OneChangePriority == NoCallYet /\ CallChangePriority

StepNext ==
    \/ OnePush
    \/ OnePop
    \/ OneRemove
    \/ OneUpdate
    \/ OneChangePriority

SpecStep == StepInit /\ [][StepNext]_vars

(***************************************************************************)
(* One call with any argument: as above, and the push of an Item that is   *)
(* in the queue already.                                                   *)
(***************************************************************************)
CallPushAttached ==
    \E x \in DOMAIN item :
        /\ InQueue(x)
        /\ Outcome("push", x, heapPush(Cur, x))

OnePushAttached == NoCallYet /\ CallPushAttached

AnyNext ==
    \/ OnePush
    \/ OnePushAttached
    \/ OnePop
    \/ OneRemove
    \/ OneUpdate
    \/ OneChangePriority

SpecAny == StepInit /\ [][AnyNext]_vars

(***************************************************************************)
(* main: create the queue with NewIntQueue(nItem), push an Item for every  *)
(* (priority, value) pair of the input, then pop nItem times and print     *)
(* each popped Item's priority and value.                                  *)
(***************************************************************************)
priorities == <<77, 22, 44, 55, 11, 88, 33, 99, 0, 66>>

values == <<0, 1, 2, 3, 4, 5, 6, 7, 8, 9>>

nItem == Len(run.input)

Pairs(ps, vs) == [k \in 1..Len(ps) |-> [priority |-> ps[k], value |-> vs[k]]]

Distinct(ps) == \A a, b \in 1..Len(ps) : a # b => ps[a] # ps[b]

MainInputs ==
    {Pairs(priorities, values)} \cup
    UNION {{Pairs(ps, [k \in 1..n |-> k - 1]) :
               ps \in {s \in [1..n -> 0..MaxN] : Distinct(s)}} : n \in 0..MaxN}

MainInit ==
    /\ \E in \in MainInputs :
           /\ run = [input |-> in, i |-> 0, j |-> 0, out |-> <<>>]
           /\ pq = NewIntQueue(Len(in)).pq
           /\ cap = NewIntQueue(Len(in)).cap
    /\ item = <<>>
    /\ last = NoCall

MainStep(op, arg, h, r) ==
    /\ pq' = h.pq
    /\ cap' = h.cap
    /\ item' = h.item
    /\ last' = [op |-> op, arg |-> arg,
                ret |-> IF h.ok THEN h.ret ELSE 0,
                status |-> IF h.ok THEN "ok" ELSE "panic"]
    /\ run' = IF h.ok THEN r ELSE run

MainPush ==
    /\ last.status = "ok"
    /\ run.i < cap
    /\ LET x == run.i + 1
           new == Item(run.input[x].value, run.input[x].priority)
           h == heapPush([Cur EXCEPT !.item = item @@ (x :> new)], x)
       IN  MainStep("push", x, h, [run EXCEPT !.i = run.i + 1])

MainPop ==
    /\ last.status = "ok"
    /\ run.i >= cap
    /\ run.j < nItem
    /\ LET h == heapPop(Cur)
       IN  MainStep("pop", 0, h,
                    [run EXCEPT !.j = run.j + 1,
                                !.out = Append(run.out,
                                    IF h.ok
                                    THEN [priority |-> h.item[h.ret].priority,
                                          value |-> h.item[h.ret].value]
                                    ELSE [priority |-> 0, value |-> 0])])

MainNext == MainPush \/ MainPop

SpecMain == MainInit /\ [][MainNext]_vars

(***************************************************************************)
(* The driver on inputs whose priorities may repeat: every sequence of up  *)
(* to MaxN priorities, the values being 0, 1, ... in the order of the      *)
(* pushes as in main.                                                      *)
(***************************************************************************)
TiesInputs ==
    UNION {{Pairs(ps, [k \in 1..n |-> k - 1]) :
               ps \in [1..n -> HeapPriorities]} : n \in 0..MaxN}

TiesInit ==
    /\ \E in \in TiesInputs :
           /\ run = [input |-> in, i |-> 0, j |-> 0, out |-> <<>>]
           /\ pq = NewIntQueue(Len(in)).pq
           /\ cap = NewIntQueue(Len(in)).cap
    /\ item = <<>>
    /\ last = NoCall

SpecTies == TiesInit /\ [][MainNext]_vars

(***************************************************************************)
(* Properties.                                                             *)
(***************************************************************************)
Expected ==
    << [priority |-> 99, value |-> 7], [priority |-> 88, value |-> 5],
       [priority |-> 77, value |-> 0], [priority |-> 66, value |-> 9],
       [priority |-> 55, value |-> 3], [priority |-> 44, value |-> 2],
       [priority |-> 33, value |-> 6], [priority |-> 22, value |-> 1],
       [priority |-> 11, value |-> 4], [priority |-> 0, value |-> 8] >>

Called(ops) == last.op \in ops /\ last.status = "ok"

\* C1: after every call, for every position i > 0 of the queue the Item at
\* the parent position (i-1)/2 has a priority >= that of the Item at i.
HeapOrderInvariant == HeapOrdered(pq, item)

\* C1 witness: changePriority has moved an inner Item of a queue of four or
\* more Items to a place that is neither the root nor the last slot.
HeapOrderWitness ==
    /\ Called({"changePriority"})
    /\ Len(pq) >= 4
    /\ InQueue(last.arg)
    /\ item[last.arg].index \in 1..(Len(pq) - 2)

\* C2: the Item at position i has index i, every Item of the queue is at one
\* position only, and no two Items of the queue have the same index.
IndexConsistency ==
    /\ \A k \in 1..Len(pq) : item[pq[k]].index = k - 1
    /\ \A a, b \in 1..Len(pq) : a # b => pq[a] # pq[b]
    /\ \A x, y \in DOMAIN item :
           (InQueue(x) /\ InQueue(y) /\ x # y) => item[x].index # item[y].index

\* C2 witness: a removal from a queue of five or more Items has left Items
\* at positions other than the ones they started at.
IndexConsistencyWitness ==
    /\ Called({"remove"})
    /\ Len(pq) >= 4
    /\ Cardinality({k \in 1..Len(pq) : pq[k] # k}) >= 2

\* C3: a pop that returns gives the Item that was at position 0, and its
\* priority is >= the priority of every Item that was in the queue.
PopReturnsMaximum ==
    [][(last'.op = "pop" /\ last'.status = "ok") =>
           /\ Len(pq) > 0
           /\ last'.ret = pq[1]
           /\ \A k \in 1..Len(pq) :
                  item[last'.ret].priority >= item[pq[k]].priority]_vars

\* C3 witness: a pop from a queue of five or more Items returned an Item of
\* strictly greater priority than the new root.
PopReturnsMaximumWitness ==
    /\ Called({"pop"})
    /\ Len(pq) >= 4
    /\ item[last.ret].priority > item[pq[1]].priority

\* C4: with pairwise distinct priorities pushed into an empty queue, the
\* priorities popped so far are strictly decreasing, and after as many pops
\* as pushes every Item has come out and the queue is empty.
SortedExtraction ==
    /\ \A k \in 1..(Len(run.out) - 1) :
           run.out[k].priority > run.out[k + 1].priority
    /\ (run.i = nItem /\ run.j = nItem) =>
           (pq = <<>> /\ Len(run.out) = nItem)
    /\ last.status = "ok"

\* C4 witness: a run of three or more Items whose pushes were not in
\* decreasing order has popped them all.
SortedExtractionWitness ==
    /\ nItem >= 3
    /\ run.j = nItem
    /\ run.input[1].priority < run.input[2].priority
    /\ run.input[2].priority > run.input[3].priority

\* C5: the run of main on its own priorities and values prints the pairs
\* (99,7) (88,5) (77,0) (66,9) (55,3) (44,2) (33,6) (22,1) (11,4) (0,8).
ConcreteScenario ==
    run.input = Pairs(priorities, values) =>
        /\ last.status = "ok"
        /\ run.out = SubSeq(Expected, 1, run.j)

\* C5 witness: main has popped its ten Items.
ConcreteScenarioWitness ==
    /\ run.input = Pairs(priorities, values)
    /\ run.j = 10
    /\ run.out = Expected

\* C6: every push of an Item that is not in the queue returns, and the
\* queue is one longer after it.
PushAlwaysSucceeds ==
    [][last'.op = "push" =>
           (last'.status = "ok" /\ Len(pq') = Len(pq) + 1)]_vars

\* C7: a push that returns leaves the queue one longer, a pop or a removal
\* that returns leaves it one shorter.
SizeProperty ==
    [][last'.status = "ok" =>
           /\ last'.op = "push" => Len(pq') = Len(pq) + 1
           /\ last'.op \in {"pop", "remove"} => Len(pq') = Len(pq) - 1]_vars

\* C7 witness: a push has filled a queue, or a removal has taken an Item
\* out of a full one.
SizePropertyWitness ==
    \/ Called({"push"}) /\ Len(pq) = cap /\ cap >= 3
    \/ Called({"remove"}) /\ Len(pq) = cap - 1 /\ cap >= 3

\* C8: pop and update on an empty queue end in a panic, return no Item, and
\* leave the queue empty and every Item as it was.
EmptyPopPanics ==
    [][(last'.op \in {"pop", "update"} /\ Len(pq) = 0) =>
           /\ last'.status = "panic"
           /\ last'.ret = 0
           /\ pq' = <<>>
           /\ item' = item]_vars

\* C8 witness: a pop panicked on a queue that Items had been pushed into and
\* taken out of.
EmptyPopPanicsWitness ==
    /\ last.op = "pop"
    /\ last.status = "panic"
    /\ pq = <<>>
    /\ \E x \in DOMAIN item : item[x].index = -1

\* C9: a removal or changePriority given an Item that is not in the queue
\* ends in a panic and leaves the queue and every Item as they were.
InvalidHandleRejected ==
    [][(last'.op \in {"remove", "changePriority"} /\ ~InQueue(last'.arg)) =>
           /\ last'.status = "panic"
           /\ pq' = pq
           /\ item' = item]_vars

\* C10: the Item a pop or a removal returns has index -1 and is at no
\* position of the queue.
DetachedAfterRemoval ==
    Called({"pop", "remove"}) =>
        /\ last.ret \in DOMAIN item
        /\ item[last.ret].index = -1
        /\ ~InQueue(last.ret)

\* C10 witness: a removal has taken an inner Item out of a queue of four or
\* more Items, and Items are left in the queue.
DetachedAfterRemovalWitness ==
    /\ Called({"remove"})
    /\ last.ret = last.arg
    /\ Len(pq) >= 3
    /\ item[last.ret].index = -1
    /\ pq[1] = 1

\* C11: every Item is either detached, in no queue with index -1, or
\* attached, at one position of the queue with an index that is a valid
\* position; Items that were created and not pushed yet included.
TwoItemStates ==
    \A x \in DOMAIN item :
        \/ ~InQueue(x) /\ item[x].index = -1
        \/ /\ Cardinality({k \in 1..Len(pq) : pq[k] = x}) = 1
           /\ item[x].index \in 0..(Len(pq) - 1)

\* The step is the call update(v, p), or changePriority(x, p).
IsUpdate(v, p) == Outcome("update", 0, update(Cur, v, p))

IsChangePriority(x, p) == Outcome("changePriority", x, changePriority(Cur, x, p))

\* C12 as stated: after update(v, p), or changePriority(item, p) on an Item
\* of the queue, that returns, if no Item of the queue has a priority
\* greater than p (ties included), the root has value v and priority p.
RoundTripUpdateWithTies ==
    [][/\ \A v \in Values, p \in Priorities :
              (/\ IsUpdate(v, p)
               /\ last'.status = "ok"
               /\ \A k \in 1..Len(pq') : item'[pq'[k]].priority <= p)
              => (item'[pq'[1]].value = v /\ item'[pq'[1]].priority = p)
       /\ \A x \in DOMAIN item, p \in Priorities :
              (/\ InQueue(x)
               /\ IsChangePriority(x, p)
               /\ last'.status = "ok"
               /\ \A k \in 1..Len(pq') : item'[pq'[k]].priority <= p)
              => item'[pq'[1]].priority = p]_vars

\* C12 amended: after update(v, p) that returns, if p is strictly greater
\* than the priority of every other Item of the queue, the root is the
\* updated Item, with value v and priority p; after changePriority(item, p)
\* in the same case the root is that Item with priority p and its old value.
RoundTripUpdate ==
    [][/\ \A v \in Values, p \in Priorities :
              (/\ IsUpdate(v, p)
               /\ last'.status = "ok"
               /\ \A k \in 1..Len(pq') :
                      pq'[k] # pq[1] => item'[pq'[k]].priority < p)
              => (/\ pq'[1] = pq[1]
                  /\ item'[pq'[1]].value = v
                  /\ item'[pq'[1]].priority = p)
       /\ \A x \in DOMAIN item, p \in Priorities :
              (/\ InQueue(x)
               /\ IsChangePriority(x, p)
               /\ last'.status = "ok"
               /\ \A k \in 1..Len(pq') :
                      pq'[k] # x => item'[pq'[k]].priority < p)
              => (/\ pq'[1] = x
                  /\ item'[x].priority = p
                  /\ item'[x].value = item[x].value)]_vars

\* C12 witness: update has put an Item with the new value 0 at the root of
\* a queue of three or more Items, every other Item of a smaller priority.
RoundTripUpdateWitness ==
    /\ Called({"update"})
    /\ Len(pq) >= 3
    /\ item[pq[1]].value = 0
    /\ \A k \in 2..Len(pq) : item[pq[k]].priority < item[pq[1]].priority

\* removeAt(x), then x.value = v and x.priority = p, then push(x).
RemoveSetPush(h, x, v, p) ==
    LET h1 == heapRemove(h, h.item[x].index)
    IN  heapPush([h1 EXCEPT !.item[x].value = v,
                            !.item[x].priority = p,
                            !.ret = 0], x)

AttachedIn(q, it, x) ==
    /\ it[x].index \in 0..(Len(q) - 1)
    /\ q[it[x].index + 1] = x

\* C13 as stated: for any Item x of the queue, the root or not, the call
\* the queue has for giving x a new value v and a new priority p (update(v,
\* p), or changePriority(x, p)) leaves the queue as removeAt(x), setting
\* value and priority, and push(x) do: x is in the queue with value v and
\* priority p.
UpdateAnyItem ==
    [][\A x \in DOMAIN item, v \in Values, p \in Priorities :
           (/\ InQueue(x)
            /\ IsUpdate(v, p) \/ IsChangePriority(x, p)
            /\ last'.status = "ok")
           => (/\ pq' = RemoveSetPush(Cur, x, v, p).pq
               /\ item' = RemoveSetPush(Cur, x, v, p).item
               /\ AttachedIn(pq', item', x)
               /\ item'[x].value = v
               /\ item'[x].priority = p)]_vars

\* C13 amended: update(v, p) leaves the queue as removeAt of the root Item,
\* setting its value and priority, and pushing it do; changePriority(x, p)
\* on any Item x of the queue leaves it as removeAt(x), setting the priority
\* only, and push(x) do.  Afterwards that Item is in the queue with the new
\* priority, and with the new value after update, its old one after
\* changePriority.
UpdateAsRemoveSetPush ==
    [][/\ \A v \in Values, p \in Priorities :
              (pq # <<>> /\ IsUpdate(v, p) /\ last'.status = "ok")
              => (/\ pq' = RemoveSetPush(Cur, pq[1], v, p).pq
                  /\ item' = RemoveSetPush(Cur, pq[1], v, p).item
                  /\ AttachedIn(pq', item', pq[1])
                  /\ item'[pq[1]].value = v
                  /\ item'[pq[1]].priority = p)
       /\ \A x \in DOMAIN item, p \in Priorities :
              (InQueue(x) /\ IsChangePriority(x, p) /\ last'.status = "ok")
              => (/\ pq' = RemoveSetPush(Cur, x, item[x].value, p).pq
                  /\ item' = RemoveSetPush(Cur, x, item[x].value, p).item
                  /\ AttachedIn(pq', item', x)
                  /\ item'[x].value = item[x].value
                  /\ item'[x].priority = p)]_vars

\* C13 witness: update has given the root Item of a queue of four or more
\* Items the value 0 and a priority that left it below the root.
UpdateAsRemoveSetPushWitness ==
    /\ Called({"update"})
    /\ Len(pq) >= 4
    /\ \E k \in 2..Len(pq) : item[pq[k]].value = 0 /\ pq[k] = 1

Completed == HeapOrderInvariant' /\ IndexConsistency'

NothingChanged == pq' = pq /\ cap' = cap /\ item' = item

\* C14 as stated: every call, with any argument, either returns with the
\* heap order and the index consistency holding, or panics having changed
\* neither the queue nor any Item.
NoPartialFailureAnyArgument ==
    [][/\ last'.status = "ok" => Completed
       /\ last'.status = "panic" => NothingChanged]_vars

\* C14 amended: the same for every call of pop, update, removeAt and
\* changePriority with any argument, and of push with an Item that is not
\* in the queue.
NoPartialFailure ==
    [][(last'.op = "push" => ~InQueue(last'.arg)) =>
           /\ last'.status = "ok" => Completed
           /\ last'.status = "panic" => NothingChanged]_vars

\* C14 witness: changePriority with an Item that is not in the queue has
\* panicked on a queue of three or more Items.
NoPartialFailureWitness ==
    /\ last.op = "changePriority"
    /\ last.status = "panic"
    /\ ~InQueue(last.arg)
    /\ Len(pq) >= 3

\* C15: in heap.Remove at any position i of the queue other than the last,
\* once the last Item has been swapped into position i, that Item is never
\* both of greater priority than its parent and of smaller priority than one
\* of its children below the cut; when down has moved it, up moves nothing;
\* and the queue heap.Remove leaves is in heap order.
AtMostOneSift ==
    \A i \in 0..(Len(pq) - 2) :
        LET n == Len(pq) - 1
            s == Swap(Cur, i, n)
            d == down(s, i, n)
            r == heapRemove(Cur, i)
        IN  /\ ~(/\ i > 0
                 /\ Less(s, i, GoDiv(i - 1, 2))
                 /\ \E c \in {2 * i + 1, 2 * i + 2} : c < n /\ Less(s, c, i))
            /\ d.moved => up(d.h, i) = d.h
            /\ HeapOrdered(r.pq, r.item)

\* C15 witness: a removal from a queue of MaxLen Items, laid out 1..MaxLen,
\* has moved the last Item up, to a position above the one the removed Item had.
AtMostOneSiftWitness ==
    /\ Called({"remove"})
    /\ Len(pq) = MaxLen - 1
    /\ last.ret # MaxLen
    /\ InQueue(MaxLen)
    /\ item[MaxLen].index < last.ret - 1

\* C16: a push of an Item whose priority is not greater than the root's
\* leaves the root where it is, and every Item a push moves down has a
\* priority strictly smaller than the pushed Item's.
StrictSiftUp ==
    [][(last'.op = "push" /\ last'.status = "ok" /\ ~InQueue(last'.arg)) =>
           LET x == last'.arg
           IN  /\ (pq # <<>> /\ item[x].priority <= item[pq[1]].priority)
                      => pq'[1] = pq[1]
               /\ \A k \in 1..Len(pq) :
                      pq'[k] # pq[k] => item[pq[k]].priority < item[x].priority]_vars

\* C16 witness: a pushed Item has moved up and stopped below a parent of
\* the same priority.
StrictSiftUpWitness ==
    /\ Called({"push"})
    /\ Len(pq) >= 4
    /\ item[last.arg].index \in 1..(Len(pq) - 2)
    /\ pq[item[last.arg].index + 1] = last.arg
    /\ item[pq[GoDiv(item[last.arg].index - 1, 2) + 1]].priority
           = item[last.arg].priority

AllEqual(in) == \A a, b \in 1..Len(in) : in[a].priority = in[b].priority

\* C17: when three or more Items of one priority are pushed and popped, the
\* first pop gives the Item pushed first and the second pop the Item pushed
\* last: it comes out before the Items pushed between, so the pops are not
\* in the order of the pushes.
TiesNotFIFO ==
    (AllEqual(run.input) /\ nItem >= 3) =>
        /\ last.status = "ok"
        /\ run.j >= 1 => run.out[1].value = 0
        /\ run.j >= 2 => run.out[2].value = nItem - 1

\* C17 witness: three Items of one priority have been popped, the third
\* pushed before the second pushed.
TiesNotFIFOWitness ==
    /\ AllEqual(run.input)
    /\ nItem = 3
    /\ run.j = 3
    /\ \E a, b \in 1..3 :
           /\ a < b
           /\ run.out[a].priority = run.out[b].priority
           /\ run.out[a].value > run.out[b].value

ItemsOf(q) == {q[k] : k \in 1..Len(q)}

SameValue(x) == item'[x].value = item[x].value

SamePriority(x) == item'[x].priority = item[x].priority

\* C18: a pop or a removal that returns takes out the Item it returns and no
\* other: the Items of the queue afterwards are those before without it;
\* and push, pop and removal change no Item's value or priority.
FrameOfRemoval ==
    [][/\ (last'.status = "ok" /\ last'.op \in {"pop", "remove"}) =>
              /\ last'.ret \in ItemsOf(pq)
              /\ ItemsOf(pq') = ItemsOf(pq) \ {last'.ret}
              /\ Cardinality(ItemsOf(pq')) = Len(pq')
       /\ last'.op \in {"push", "pop", "remove"} =>
              \A x \in DOMAIN item : SameValue(x) /\ SamePriority(x)]_vars

\* C18 witness: a pop or a removal has taken one Item out of a full queue of
\* MaxLen Items.
FrameOfRemovalWitness ==
    /\ Called({"pop", "remove"})
    /\ Len(pq) = MaxLen - 1
    /\ last.ret \in DOMAIN item
    /\ last.ret \notin ItemsOf(pq)
    /\ Cardinality(ItemsOf(pq)) = MaxLen - 1

\* C19: changePriority(x, p) on an Item x of the queue keeps the length and
\* the Items of the queue, sets the priority of x to p, and changes no other
\* Item's priority and no Item's value; update(v, p) on a non-empty queue
\* keeps the length and the Items and changes the value and the priority of
\* no Item but the one that was at the root.
FrameOfUpdate ==
    [][/\ \A x \in DOMAIN item, p \in Priorities :
              (InQueue(x) /\ IsChangePriority(x, p) /\ last'.status = "ok")
              => (/\ Len(pq') = Len(pq)
                  /\ ItemsOf(pq') = ItemsOf(pq)
                  /\ item'[x].priority = p
                  /\ \A y \in DOMAIN item : SameValue(y)
                  /\ \A y \in DOMAIN item \ {x} : SamePriority(y))
       /\ \A v \in Values, p \in Priorities :
              (pq # <<>> /\ IsUpdate(v, p) /\ last'.status = "ok")
              => (/\ Len(pq') = Len(pq)
                  /\ ItemsOf(pq') = ItemsOf(pq)
                  /\ \A y \in DOMAIN item \ {pq[1]} :
                         SameValue(y) /\ SamePriority(y))]_vars

\* C19 witness: changePriority has brought an Item that was not the root to
\* the root of a full queue of MaxLen Items.
FrameOfUpdateWitness ==
    /\ Called({"changePriority"})
    /\ Len(pq) = MaxLen
    /\ last.arg # 1
    /\ pq[1] = last.arg

====
